---- MODULE Spec2Model ----
(***************************************************************************)
(* A model of CentTR's PhoneOSINT class (src/main.py): construction and    *)
(* parsing of the input number, the five section operations, the           *)
(* run_all_checks aggregator that assembles the six-section envelope, and  *)
(* main(), which displays, offers and saves the envelope.                  *)
(*                                                                         *)
(* Python strings whose characters matter (the input number, the formats   *)
(* derived from it, the HTTP response text) are sequences of one-character *)
(* strings.  Fixed literals are TLA+ strings.  Python dicts are functions  *)
(* from keys to values; ordered dicts whose order matters are sequences of *)
(* <<key, value>> pairs.                                                   *)
(***************************************************************************)
EXTENDS Integers, Sequences, FiniteSets, TLC

VARIABLES
    pc,                     \* position of the caller / of run_all_checks
    phone_number,           \* self.phone_number
    parsed_number,          \* self.parsed_number (None or a PhoneNumber)
    console,                \* error lines printed on self.console
    basic_info,             \* self.basic_info
    social_media_results,   \* self.social_media_results (ordered dict)
    breach_results,         \* self.breach_results
    google_results,         \* self.google_results
    reverse_lookup_results, \* self.reverse_lookup_results
    hibp_api_key,           \* argument of the current run_all_checks call
    num_results,            \* argument google_results of the current call
    results,                \* the envelope under construction / returned
    invoked,                \* sections invoked so far in the current call
    http_log,               \* GET requests issued to the breach API
    search_log,             \* queries handed to the search provider
    last_call,              \* what the last section operation was given and returned
                            \* (a returned list sits in a one-field record)
    runs,                   \* number of run_all_checks calls started
    main_console,           \* what main() has printed on its console
    opened,                 \* what main() handed to the web browser
    saved                   \* the file main() wrote

vars == <<pc, phone_number, parsed_number, console, basic_info,
          social_media_results, breach_results, google_results,
          reverse_lookup_results, hibp_api_key, num_results, results,
          invoked, http_log, search_log, last_call, runs,
          main_console, opened, saved>>

\* the state of main() outside the PhoneOSINT object
mainvars == <<main_console, opened, saved>>

None == "None"               \* None where a string is expected
NoNumber == [none |-> TRUE]  \* None where a PhoneNumber is expected

----------------------------------------------------------------------------
(* Bounds of the model.                                                    *)

MaxRuns == 2        \* run_all_checks calls on one object
MaxN == 2           \* largest result-count bound passed to google_search
MaxRecords == 2     \* longest breach list in an HTTP 200 body
MaxBodyExtra == 2   \* how far a response text may exceed the excerpt limit

----------------------------------------------------------------------------
(* Character strings.                                                      *)

Digits == {"0", "1", "2", "3", "4", "5", "6", "7", "8", "9"}

RECURSIVE Remove(_, _)
\* str.replace(c, ""): every occurrence of the character c removed
Remove(s, c) ==
    IF s = <<>> THEN <<>>
    ELSE IF Head(s) = c THEN Remove(Tail(s), c)
         ELSE <<Head(s)>> \o Remove(Tail(s), c)

RECURSIVE OnlyDigits(_)
OnlyDigits(s) ==
    IF s = <<>> THEN <<>>
    ELSE IF Head(s) \in Digits THEN <<Head(s)>> \o OnlyDigits(Tail(s))
         ELSE OnlyDigits(Tail(s))

RECURSIVE DropToStart(_)
\* the library discards everything before the first "+" or digit
DropToStart(s) ==
    IF s = <<>> THEN <<>>
    ELSE IF Head(s) \in Digits \cup {"+"} THEN s
         ELSE DropToStart(Tail(s))

IsPrefix(p, s) == Len(p) <= Len(s) /\ SubSeq(s, 1, Len(p)) = p

Drop(s, n) == SubSeq(s, n + 1, Len(s))

RECURSIVE quote(_)
\* urllib.parse.quote: digits are unreserved, "+" " " "(" ")" are escaped
quote(s) ==
    IF s = <<>> THEN <<>>
    ELSE (CASE Head(s) = "+" -> <<"%", "2", "B">>
            [] Head(s) = " " -> <<"%", "2", "0">>
            [] Head(s) = "(" -> <<"%", "2", "8">>
            [] Head(s) = ")" -> <<"%", "2", "9">>
            [] OTHER -> <<Head(s)>>) \o quote(Tail(s))

----------------------------------------------------------------------------
(* The input strings the caller may type.                                  *)

InBare    == <<"+", "6", "2", "8", "1", "2", "3", "4", "5", "6", "7", "8", "9", "0">>
InSpaces  == <<"+", "6", "2", " ", "8", "1", "2", " ", "3", "4", "5", "6", " ", "7", "8", "9", "0">>
InDashes  == <<"+", "6", "2", "-", "8", "1", "2", "-", "3", "4", "5", "6", "-", "7", "8", "9", "0">>
InParens  == <<"+", "6", "2", "(", "8", "1", "2", ")", "3", "4", "5", "6", "7", "8", "9", "0">>
InShort   == <<"+", "6", "2", "8", "1", "2">>
InNoPlus  == <<"6", "2", "8", "1", "2", "3", "4", "5", "6", "7", "8", "9", "0">>
InLetters == <<"a", "b", "c">>
InEmpty   == <<>>

Inputs == {InBare, InSpaces, InDashes, InParens, InShort, InNoPlus,
           InLetters, InEmpty}

----------------------------------------------------------------------------
(* The numbering-plan library, restricted to the Indonesian mobile range.  *)

CountryCodes == {<<"6", "2">>}

\* phonenumbers.parse(s, None) raises NumberParseException
ParseRaises(s) ==
    LET t == DropToStart(s)
        d == OnlyDigits(t)
    IN  \/ t = <<>>
        \/ Head(t) # "+"
        \/ \A cc \in CountryCodes : ~IsPrefix(cc, d)
        \/ \E cc \in CountryCodes :
              IsPrefix(cc, d) /\ Len(d) - Len(cc) < 2

\* phonenumbers.parse(s, None) when it does not raise
Parse(s) ==
    LET d  == OnlyDigits(DropToStart(s))
        cc == CHOOSE c \in CountryCodes : IsPrefix(c, d)
    IN  [country_code |-> cc, national_number |-> Drop(d, Len(cc))]

\* phonenumbers.is_valid_number
is_valid_number(n) ==
    /\ n.country_code = <<"6", "2">>
    /\ Len(n.national_number) \in 9..12
    /\ n.national_number[1] = "8"
    /\ n.national_number[2] \in {"1", "2", "3", "5", "6", "7", "8", "9"}

\* phonenumbers.is_possible_number: length check only
is_possible_number(n) == Len(n.national_number) \in 5..12

FormatE164(n) == <<"+">> \o n.country_code \o n.national_number

FormatNational(n) ==
    IF is_valid_number(n) THEN <<"0">> \o n.national_number
    ELSE n.national_number

FormatInternational(n) ==
    <<"+">> \o n.country_code \o <<" ">> \o n.national_number

Last4(s) == IF Len(s) <= 4 THEN s ELSE SubSeq(s, Len(s) - 3, Len(s))

----------------------------------------------------------------------------
(* Python values: a dict is [t |-> "dict", v |-> function], a list is      *)
(* [t |-> "list", v |-> sequence]; JSON scalars carry their own tag.       *)

PyDict(f) == [t |-> "dict", v |-> f]
PyList(s) == [t |-> "list", v |-> s]

Get(d, k, default) == IF k \in DOMAIN d THEN d[k] ELSE default

\* dict[k] = v on an insertion-ordered dict kept as a sequence of pairs
DictSet(d, k, v) ==
    IF \E i \in 1..Len(d) : d[i][1] = k
    THEN [i \in 1..Len(d) |-> IF d[i][1] = k THEN <<k, v>> ELSE d[i]]
    ELSE Append(d, <<k, v>>)

Keys(d) == [i \in 1..Len(d) |-> d[i][1]]

----------------------------------------------------------------------------
(* PhoneOSINT.__init__ and _parse_number                                   *)

ParseErrorLine == "Error parsing phone number"

\* self.parsed_number after _parse_number: the assignment of line 37
\* happens before the validity test of line 38
ParsedAfterInit(s) == IF ParseRaises(s) THEN NoNumber ELSE Parse(s)

\* the except branch of _parse_number prints one line, for a parser
\* exception as well as for the ValueError of line 39
ConsoleAfterInit(s) ==
    IF ParseRaises(s) \/ ~is_valid_number(Parse(s))
    THEN <<ParseErrorLine>> ELSE <<>>

----------------------------------------------------------------------------
(* get_basic_info                                                          *)

InvalidBasicInfo == [Error |-> "Invalid phone number"]

_get_region_details(location) ==
    [Region |-> location,
     EstimatedCoordinates |-> "Not available",
     AreaCodeInfo |-> "Not available"]

BasicInfoOf(pn) ==
    LET valid == is_valid_number(pn)
        possible == is_possible_number(pn)
        location == IF valid THEN "Indonesia" ELSE "Unknown"
        base ==
                 [InternationalFormat |-> FormatInternational(pn),
                  NationalFormat |-> FormatNational(pn),
                  E164Format |-> FormatE164(pn),
                  Carrier |-> IF valid THEN "Telkomsel" ELSE "Unknown",
                  Location |-> location,
                  TimeZone |-> IF valid THEN "Asia/Jakarta" ELSE "Unknown",
                  NumberType |-> IF valid THEN "Mobile" ELSE "Fixed line",
                  ValidNumber |-> IF valid THEN "Yes" ELSE "No",
                  PossibleNumber |-> IF possible THEN "Yes" ELSE "No",
                  CountryCode |-> pn.country_code,
                  NationalNumber |-> pn.national_number,
                  Extension |-> "None"]
    IN  IF location # "Unknown"
        THEN ("RegionDetails" :> _get_region_details(location)) @@ base
        ELSE base

\* [ret, stored]: the early return of line 46 stores nothing
get_basic_info(stored, pn) ==
    IF pn = NoNumber THEN [ret |-> InvalidBasicInfo, stored |-> stored]
    ELSE [ret |-> BasicInfoOf(pn), stored |-> BasicInfoOf(pn)]

----------------------------------------------------------------------------
(* search_social_media                                                     *)

InvalidSocial == <<<<"Error", "Invalid phone number">>>>

\* lines 96 and 130: self.phone_number.replace("+", "").replace(" ", "")
clean_number(phone) == Remove(Remove(phone, "+"), " ")

\* the literal catalog of lines 99-111; arg names what is substituted
social_platforms ==
    << [name |-> "Facebook",   head |-> "https://www.facebook.com/search/top/?q=", arg |-> "quoted", tail |-> ""],
       [name |-> "WhatsApp",   head |-> "https://wa.me/", arg |-> "clean", tail |-> ""],
       [name |-> "x",          head |-> "https://x.com/search?q=", arg |-> "quoted", tail |-> "&src=typed_query"],
       [name |-> "Instagram",  head |-> "https://www.instagram.com/search/top/?q=", arg |-> "quoted", tail |-> ""],
       [name |-> "Truecaller", head |-> "https://www.truecaller.com/search/", arg |-> "quoted", tail |-> ""],
       [name |-> "Telegram",   head |-> "https://t.me/", arg |-> "clean", tail |-> ""],
       [name |-> "Viber",      head |-> "viber://add?number=", arg |-> "clean", tail |-> ""],
       [name |-> "LinkedIn",   head |-> "https://www.linkedin.com/search/results/all/?keywords=", arg |-> "quoted", tail |-> ""],
       [name |-> "TikTok",     head |-> "https://www.tiktok.com/search?q=", arg |-> "quoted", tail |-> ""],
       [name |-> "Snapchat",   head |-> "https://www.snapchat.com/add/", arg |-> "clean", tail |-> ""],
       [name |-> "WeChat",     head |-> "weixin://dl/add?", arg |-> "clean", tail |-> ""] >>

PlatformUrl(p, phone, pn) ==
    [head |-> p.head,
     number |-> IF p.arg = "quoted" THEN quote(FormatE164(pn))
                ELSE clean_number(phone),
     tail |-> p.tail]

RECURSIVE StoreLinks(_, _, _, _)
\* the loop of lines 116-121 from catalog position i on
StoreLinks(acc, i, phone, pn) ==
    IF i > Len(social_platforms) THEN acc
    ELSE StoreLinks(DictSet(acc, social_platforms[i].name,
                            PlatformUrl(social_platforms[i], phone, pn)),
                    i + 1, phone, pn)

\* [ret, stored]: the returned value and self.social_media_results after
search_social_media(stored, phone, pn) ==
    IF pn = NoNumber THEN [ret |-> InvalidSocial, stored |-> stored]
    ELSE LET new == StoreLinks(stored, 1, phone, pn)
         IN  [ret |-> new, stored |-> new]

----------------------------------------------------------------------------
(* _calculate_breach_severity                                              *)

Contains(seq, x) == \E i \in 1..Len(seq) : seq[i] = x

\* the same rules with the two downgrades tested before the upgrades
_calculate_breach_severity_low_first(breach) ==
    LET s0 == "Medium"
        s1 == IF Get(breach, "IsFabricated", FALSE) THEN "Low" ELSE s0
        s2 == IF Get(breach, "IsRetired", FALSE) THEN "Low" ELSE s1
        s3 == IF Get(breach, "IsVerified", FALSE) THEN "High" ELSE s2
        s4 == IF Contains(Get(breach, "DataClasses", <<>>), "Password")
              THEN "Critical" ELSE s3
        s5 == IF Get(breach, "IsSensitive", FALSE) THEN "Critical" ELSE s4
    IN  s5

\* the five successive ifs of lines 161-172, each overriding the last
_calculate_breach_severity(breach) ==
    LET s0 == "Medium"
        s1 == IF Get(breach, "IsVerified", FALSE) THEN "High" ELSE s0
        s2 == IF Contains(Get(breach, "DataClasses", <<>>), "Password")
              THEN "Critical" ELSE s1
        s3 == IF Get(breach, "IsSensitive", FALSE) THEN "Critical" ELSE s2
        s4 == IF Get(breach, "IsFabricated", FALSE) THEN "Low" ELSE s3
        s5 == IF Get(breach, "IsRetired", FALSE) THEN "Low" ELSE s4
    IN  s5

----------------------------------------------------------------------------
(* check_breaches                                                          *)

Limit == 200

Skipped  == PyDict([Status |-> "Skipped - No HIBP API key provided"])
NotFound == PyDict([Status |-> "Phone number not found in any breaches"])
RequestFailed == PyDict([Error |-> "Request failed"])
InvalidJson   == PyDict([Error |-> "Invalid JSON response"])

BreachUrl(phone) ==
    [base |-> "https://haveibeenpwned.com/api/v3/breachedaccount/",
     number |-> clean_number(phone),
     query |-> "?truncateResponse=false"]

\* the excerpt cut one character too early: len(text) >= 200
ExcerptInclusive(text) ==
    IF Len(text) >= Limit
    THEN SubSeq(text, 1, Limit) \o <<".", ".", ".">>
    ELSE text

\* line 150: text[:200] + "..." if len(text) > 200 else text
Excerpt(text) ==
    IF Len(text) > Limit
    THEN SubSeq(text, 1, Limit) \o <<".", ".", ".">>
    ELSE text

HttpError(status, text) ==
    PyDict([Error |-> "HTTP " \o ToString(status), Details |-> Excerpt(text)])

RECURSIVE TagFrom(_, _)
\* lines 143-144 on a list from position i on: every dict gets its
\* Severity; the first element that is not a dict raises, and the
\* elements before it stay tagged
TagFrom(items, i) ==
    IF i > Len(items) THEN [items |-> items, exc |-> None]
    ELSE IF items[i].t # "dict"
         THEN [items |-> items, exc |-> "AttributeError"]
    ELSE TagFrom([items EXCEPT ![i] =
                     PyDict(("Severity" :> _calculate_breach_severity(items[i].v))
                            @@ items[i].v)],
                 i + 1)

\* lines 142-144: [value, exc], the value self.breach_results is left
\* with and the exception that escapes (None when none does).  Iterating
\* a dict or a string yields strings, which have no get(); a number or
\* null cannot be iterated at all.
TagBreaches(json) ==
    CASE json.t = "list" ->
            LET r == TagFrom(json.v, 1)
            IN  [value |-> PyList(r.items), exc |-> r.exc]
      [] json.t \in {"dict", "str"} ->
            [value |-> json,
             exc |-> IF DOMAIN json.v = {} THEN None ELSE "AttributeError"]
      [] OTHER -> [value |-> json, exc |-> "TypeError"]

NoValue == [t |-> "none"]   \* a call that raised returned nothing

\* the key test written as "hibp_api_key is None"
NoKeyIsNone(key) == key = None

NoKey(key) == key = None \/ key = ""

\* [ret, stored, sent, exc]: the value returned, self.breach_results
\* after the call, the GET requests issued, the exception that escapes
check_breaches(stored, phone, key, resp) ==
    IF NoKey(key)
    THEN [ret |-> Skipped, stored |-> stored, sent |-> <<>>, exc |-> None]
    ELSE LET sent == <<BreachUrl(phone)>>
             done(v) == [ret |-> v, stored |-> v, sent |-> sent, exc |-> None]
         IN  CASE resp.kind = "exception" -> done(RequestFailed)
               [] resp.kind = "http" /\ resp.status = 200 /\ resp.json.t = "invalid" ->
                     IF resp.decode_error = "requests"
                     THEN done(RequestFailed) ELSE done(InvalidJson)
               [] resp.kind = "http" /\ resp.status = 200 /\ resp.json.t # "invalid" ->
                     LET r == TagBreaches(resp.json)
                     IN  IF r.exc = None THEN done(r.value)
                         ELSE [ret |-> NoValue, stored |-> r.value,
                               sent |-> sent, exc |-> r.exc]
               [] resp.kind = "http" /\ resp.status = 404 -> done(NotFound)
               [] OTHER -> done(HttpError(resp.status, resp.text))

----------------------------------------------------------------------------
(* google_search                                                           *)

CannotSearch == <<"Error: Cannot search - invalid phone number">>

SearchFailed == "Error: Google search failed"

\* line 184
Query(pn) == [national |-> FormatNational(pn),
              international |-> FormatInternational(pn)]

\* the i-th URL the provider returns for a query
ProviderUrl(i) == "url" \o ToString(i)

\* what search(query, num_results=n, stop=n, pause=2) can do: return k
\* URLs, k <= stop, and then end or raise
ProviderRuns(n) == [yielded : 0..n, raised : BOOLEAN]

Yielded(run) == [i \in 1..run.yielded |-> ProviderUrl(i)]

\* the loop appending to the list left by the previous search
KeptResults(stored) == stored

\* line 187: the list the loop appends to
FreshResults(stored) == <<>>

RECURSIVE Collect(_, _)
\* lines 191-192
Collect(acc, urls) ==
    IF urls = <<>> THEN acc
    ELSE Collect(Append(acc, Head(urls)), Tail(urls))

\* the error marker appended to what was collected
AppendFailure(collected) == Append(collected, SearchFailed)

\* line 195
OnSearchFailure(collected) == <<SearchFailed>>

\* [ret, stored, queries]
google_search(stored, pn, n, run) ==
    IF pn = NoNumber
    THEN [ret |-> CannotSearch, stored |-> stored, queries |-> <<>>]
    ELSE LET collected == Collect(FreshResults(stored), Yielded(run))
             final == IF run.raised THEN OnSearchFailure(collected)
                      ELSE collected
         IN  [ret |-> final, stored |-> final,
              queries |-> <<[query |-> Query(pn), stop |-> n, run |-> run]>>]

----------------------------------------------------------------------------
(* reverse_lookup                                                          *)

InvalidLookup == <<[kind |-> "Error: Invalid phone number", number |-> <<>>]>>

\* [ret, stored]
reverse_lookup(stored, pn) ==
    IF pn = NoNumber THEN [ret |-> InvalidLookup, stored |-> stored]
    ELSE LET national == FormatNational(pn)
             new == << [kind |-> "Possible business", number |-> national],
                       [kind |-> "Potential contact: John Doe", number |-> <<>>],
                       [kind |-> "Linked profile", number |-> Last4(national)] >>
         IN  [ret |-> new, stored |-> new]

----------------------------------------------------------------------------
(* _get_network_info and the Metadata block                                *)

_get_network_info(resolves) ==
    IF resolves
    THEN [Host |-> "hostname", IPAddress |-> "ip",
          Location |-> "Unknown (would require GeoIP in production)"]
    ELSE [NetworkInfo |-> "Unavailable"]

Metadata(phone, resolves) ==
    [SearchDate |-> "now", PhoneNumber |-> phone, ToolVersion |-> "2.1.0",
     ExecutionTime |-> "now", Network |-> _get_network_info(resolves)]

----------------------------------------------------------------------------
(* What the outside world can answer.                                      *)

ApiKeys == {None, "", "key"}

Resp(kind, status, text, json, decode_error) ==
    [kind |-> kind, status |-> status, text |-> text, json |-> json,
     decode_error |-> decode_error]

NotJson == [t |-> "invalid"]

\* a response text of n characters, all positions distinguishable mod 10
TextOfLen(n) == [i \in 1..n |-> ToString(i % 10)]

NetworkFailures ==
    {Resp("exception", 0, <<>>, NotJson, why) : why \in {"ConnectionError", "Timeout"}}

OtherStatuses == {401, 429, 500}

BoolFields == {"IsVerified", "IsSensitive", "IsFabricated", "IsRetired"}

DataClassLists ==
    {<<>>, <<"Email addresses">>, <<"Password">>, <<"Passwords">>,
     <<"Email addresses", "Password">>}

\* every breach record over the fields the classification reads, each
\* field present or missing, with or without a field it does not read
Records ==
    {b @@ d @@ n :
        b \in UNION {[D -> BOOLEAN] : D \in SUBSET BoolFields},
        d \in {<<>>} \cup {("DataClasses" :> l) : l \in DataClassLists},
        n \in {<<>>, ("Name" :> "Adobe")}}

VerifiedRetired == ("Name" :> "Adobe") @@ ("IsVerified" :> TRUE) @@ ("IsRetired" :> TRUE)
WithPassword    == ("Name" :> "LinkedIn") @@ ("DataClasses" :> <<"Password">>)
Plain           == ("Name" :> "Canva") @@ ("IsVerified" :> FALSE)

JsonNumber == [t |-> "num", v |-> 1]

SampleItems == {PyDict(VerifiedRetired), PyDict(WithPassword), PyDict(Plain), JsonNumber}

RECURSIVE ListsOver(_, _)
\* the sequences of exactly n elements of S
ListsOver(S, n) ==
    IF n = 0 THEN {<<>>}
    ELSE {Append(l, x) : l \in ListsOver(S, n - 1), x \in S}

NonListJson ==
    {PyDict([message |-> "rate limited"]), PyDict(<<>>), [t |-> "null"],
     JsonNumber, [t |-> "str", v |-> <<"o", "k">>]}

Ok200(json) == Resp("http", 200, <<>>, json, "requests")

Undecodable == {Resp("http", 200, <<>>, NotJson, d) : d \in {"requests", "json"}}

\* the responses run_all_checks is exercised with
Responses ==
    NetworkFailures \cup Undecodable
    \cup {Resp("http", 404, <<>>, NotJson, "requests"),
          Resp("http", 500, TextOfLen(3), NotJson, "requests"),
          Ok200(PyList(<<>>)),
          Ok200(PyList(<<PyDict(VerifiedRetired)>>)),
          Ok200(PyList(<<PyDict(WithPassword), JsonNumber>>)),
          Ok200(PyDict([message |-> "rate limited"]))}

\* the responses check_breaches alone is exercised with
AllResponses ==
    NetworkFailures \cup Undecodable
    \cup {Resp("http", st, TextOfLen(n), NotJson, "requests") :
             st \in OtherStatuses \cup {404}, n \in 0..(Limit + MaxBodyExtra)}
    \cup {Ok200(j) : j \in NonListJson}
    \cup {Ok200(PyList(<<x>>)) : x \in {PyDict(r) : r \in Records} \cup {JsonNumber}}
    \cup {Ok200(PyList(l)) :
             l \in UNION {ListsOver(SampleItems, n) : n \in (0..MaxRecords) \ {1}}}

----------------------------------------------------------------------------
(* The state machine.                                                      *)

Sections == <<"Basic Info", "Social Media", "Breach Check", "Google Results",
              "Reverse Lookup", "Metadata">>

NoCall == [op |-> "none", input |-> NoValue, ret |-> NoValue]

Init ==
    /\ pc = "new"
    /\ phone_number = <<>>
    /\ parsed_number = NoNumber
    /\ console = <<>>
    /\ basic_info = <<>>
    /\ social_media_results = <<>>
    /\ breach_results = PyDict(<<>>)
    /\ google_results = <<>>
    /\ reverse_lookup_results = <<>>
    /\ hibp_api_key = None
    /\ num_results = 0
    /\ results = <<>>
    /\ invoked = <<>>
    /\ http_log = <<>>
    /\ search_log = <<>>
    /\ last_call = NoCall
    /\ runs = 0
    /\ main_console = <<>>
    /\ opened = {}
    /\ saved = NoValue

\* PhoneOSINT(phone_number): __init__, which calls _parse_number
Construct(p) ==
    /\ pc = "new"
    /\ pc' = "ready"
    /\ phone_number' = p
    /\ parsed_number' = ParsedAfterInit(p)
    /\ console' = ConsoleAfterInit(p)
    /\ UNCHANGED <<basic_info, social_media_results, breach_results,
                   google_results, reverse_lookup_results, hibp_api_key,
                   num_results, results, invoked, http_log, search_log,
                   last_call, runs>>
    /\ UNCHANGED mainvars

\* a call of run_all_checks(hibp_api_key, google_results) is entered
EnterRunAllChecks(key, n) ==
    /\ pc \in {"ready", "returned", "raised"}
    /\ runs < MaxRuns
    /\ pc' = "basic"
    /\ hibp_api_key' = key
    /\ num_results' = n
    /\ results' = <<>>
    /\ invoked' = <<>>
    /\ runs' = runs + 1
    /\ last_call' = NoCall
    /\ UNCHANGED <<phone_number, parsed_number, console, basic_info,
                   social_media_results, breach_results, google_results,
                   reverse_lookup_results, http_log, search_log>>
    /\ UNCHANGED mainvars

\* line 227
RunBasicInfo ==
    /\ pc = "basic"
    /\ LET r == get_basic_info(basic_info, parsed_number)
       IN  /\ basic_info' = r.stored
           /\ results' = ("Basic Info" :> r.ret) @@ results
           /\ last_call' = [op |-> "get_basic_info", input |-> NoValue, ret |-> r.ret]
    /\ invoked' = Append(invoked, "Basic Info")
    /\ pc' = "social"
    /\ UNCHANGED <<phone_number, parsed_number, console, social_media_results,
                   breach_results, google_results, reverse_lookup_results,
                   hibp_api_key, num_results, http_log, search_log, runs>>
    /\ UNCHANGED mainvars

\* line 228
RunSocialMedia ==
    /\ pc = "social"
    /\ LET r == search_social_media(social_media_results, phone_number, parsed_number)
       IN  /\ social_media_results' = r.stored
           /\ results' = ("Social Media" :> r.ret) @@ results
           /\ last_call' = [op |-> "search_social_media", input |-> NoValue,
                            ret |-> [links |-> r.ret]]
    /\ invoked' = Append(invoked, "Social Media")
    /\ pc' = "breach"
    /\ UNCHANGED <<phone_number, parsed_number, console, basic_info,
                   breach_results, google_results, reverse_lookup_results,
                   hibp_api_key, num_results, http_log, search_log, runs>>
    /\ UNCHANGED mainvars

\* line 229; an exception escaping check_breaches escapes run_all_checks
RunBreachCheck(resp) ==
    /\ pc = "breach"
    /\ LET r == check_breaches(breach_results, phone_number, hibp_api_key, resp)
       IN  /\ breach_results' = r.stored
           /\ http_log' = http_log \o r.sent
           /\ last_call' = [op |-> "check_breaches",
                            input |-> [key |-> hibp_api_key, resp |-> resp],
                            ret |-> r.ret]
           /\ IF r.exc = None
              THEN /\ results' = ("Breach Check" :> r.ret) @@ results
                   /\ pc' = "google"
              ELSE /\ results' = results
                   /\ pc' = "raised"
    /\ invoked' = Append(invoked, "Breach Check")
    /\ UNCHANGED <<phone_number, parsed_number, console, basic_info,
                   social_media_results, google_results,
                   reverse_lookup_results, hibp_api_key, num_results,
                   search_log, runs>>
    /\ UNCHANGED mainvars

\* line 230
RunGoogleSearch(run) ==
    /\ pc = "google"
    /\ LET r == google_search(google_results, parsed_number, num_results, run)
       IN  /\ google_results' = r.stored
           /\ search_log' = search_log \o r.queries
           /\ results' = ("Google Results" :> r.ret) @@ results
           /\ last_call' = [op |-> "google_search",
                            input |-> [n |-> num_results, run |-> run],
                            ret |-> [urls |-> r.ret]]
    /\ invoked' = Append(invoked, "Google Results")
    /\ pc' = "reverse"
    /\ UNCHANGED <<phone_number, parsed_number, console, basic_info,
                   social_media_results, breach_results,
                   reverse_lookup_results, hibp_api_key, num_results,
                   http_log, runs>>
    /\ UNCHANGED mainvars

\* line 231
RunReverseLookup ==
    /\ pc = "reverse"
    /\ LET r == reverse_lookup(reverse_lookup_results, parsed_number)
       IN  /\ reverse_lookup_results' = r.stored
           /\ results' = ("Reverse Lookup" :> r.ret) @@ results
           /\ last_call' = [op |-> "reverse_lookup", input |-> NoValue,
                            ret |-> [lines |-> r.ret]]
    /\ invoked' = Append(invoked, "Reverse Lookup")
    /\ pc' = "metadata"
    /\ UNCHANGED <<phone_number, parsed_number, console, basic_info,
                   social_media_results, breach_results, google_results,
                   hibp_api_key, num_results, http_log, search_log, runs>>
    /\ UNCHANGED mainvars

\* lines 232-241: the Metadata block, then the envelope is returned
RunMetadata(resolves) ==
    /\ pc = "metadata"
    /\ results' = ("Metadata" :> Metadata(phone_number, resolves)) @@ results
    /\ last_call' = [op |-> "_get_network_info", input |-> NoValue,
                     ret |-> PyDict(_get_network_info(resolves))]
    /\ invoked' = Append(invoked, "Metadata")
    /\ pc' = "returned"
    /\ UNCHANGED <<phone_number, parsed_number, console, basic_info,
                   social_media_results, breach_results, google_results,
                   reverse_lookup_results, hibp_api_key, num_results,
                   http_log, search_log, runs>>
    /\ UNCHANGED mainvars

Next ==
    \/ \E p \in Inputs : Construct(p)
    \/ \E key \in ApiKeys, n \in 0..MaxN : EnterRunAllChecks(key, n)
    \/ RunBasicInfo
    \/ RunSocialMedia
    \/ \E resp \in Responses : RunBreachCheck(resp)
    \/ \E run \in ProviderRuns(num_results) : RunGoogleSearch(run)
    \/ RunReverseLookup
    \/ \E resolves \in BOOLEAN : RunMetadata(resolves)

Spec == Init /\ [][Next]_vars

----------------------------------------------------------------------------
(* check_breaches called on its own, against every response.               *)

CallCheckBreaches(key, resp) ==
    /\ pc = "ready"
    /\ LET r == check_breaches(breach_results, phone_number, key, resp)
       IN  /\ breach_results' = r.stored
           /\ http_log' = http_log \o r.sent
           /\ last_call' = [op |-> "check_breaches",
                            input |-> [key |-> key, resp |-> resp],
                            ret |-> r.ret]
           /\ pc' = IF r.exc = None THEN "called" ELSE "raised"
    /\ UNCHANGED <<phone_number, parsed_number, console, basic_info,
                   social_media_results, google_results,
                   reverse_lookup_results, hibp_api_key, num_results,
                   results, invoked, search_log, runs>>
    /\ UNCHANGED mainvars

NextBreach ==
    \/ \E p \in Inputs : Construct(p)
    \/ \E key \in ApiKeys, resp \in AllResponses : CallCheckBreaches(key, resp)

SpecBreach == Init /\ [][NextBreach]_vars

TypeOK == pc \in {"new", "ready", "basic", "social", "breach", "google",
                  "reverse", "metadata", "returned", "raised", "called",
                  "shown", "offered", "interrupted", "finally", "done"}

----------------------------------------------------------------------------
(* main(): prompts, one run_all_checks call, display, link opening, save,  *)
(* and the except / finally clauses around them.                           *)

Message(text) == [kind |-> "message", what |-> text]
Section(name) == [kind |-> "section", what |-> name]

CancelLine  == Message("Operation cancelled by user")
ErrorLine   == Message("An error occurred")
ClosingLine == Message("Thank you for using CentTR Tool!")

\* line 410: google_results=5
GoogleResultsArg == 5

\* a record the breach API really returns: every field display_results reads
FullRecord ==
    ("Name" :> "Adobe") @@ ("BreachDate" :> "2013-10-04")
    @@ ("DataClasses" :> <<"Email addresses", "Password">>)
    @@ ("IsVerified" :> TRUE)

MainResponses == Responses \cup {Ok200(PyList(<<PyDict(FullRecord)>>))}

RECURSIVE Rendered(_)
Rendered(names) ==
    IF names = <<>> THEN <<>>
    ELSE <<Section(Head(names))>> \o Rendered(Tail(names))

\* display_results: the panels printed, in order, and the exception that
\* ends it; the breach table reads Name, BreachDate and DataClasses of
\* every record (lines 305-311) after the first two panels are out
display_results(env) ==
    LET breach == env["Breach Check"]
        rows_ok ==
            \/ breach.t # "list"
            \/ \A i \in 1..Len(breach.v) :
                  {"Name", "BreachDate", "DataClasses"} \subseteq DOMAIN breach.v[i].v
    IN  IF rows_ok
        THEN [printed |-> Rendered(Sections), exc |-> None]
        ELSE [printed |-> Rendered(<<"Basic Info", "Social Media">>),
              exc |-> "KeyError"]

\* what the user answers to the link prompt: A, N, or some numbers
LinkChoices ==
    {[kind |-> "A", picks |-> {}], [kind |-> "N", picks |-> {}],
     [kind |-> "digits", picks |-> {1}], [kind |-> "digits", picks |-> {2, 99}]}

\* open_urls_interactively: the platforms whose link is opened
open_urls_interactively(env, choice) ==
    LET links == env["Social Media"]
    IN  CASE choice.kind = "A" -> {links[i][1] : i \in 1..Len(links)}
          [] choice.kind = "N" -> {}
          [] OTHER -> {links[i][1] : i \in choice.picks \cap (1..Len(links))}

\* the error path that also shows what the object has collected so far
OnInterruptShowPartial(out, partial) ==
    Append(out, CancelLine) \o Rendered([i \in 1..Len(partial) |-> partial[i]])

\* lines 432-433: the KeyboardInterrupt clause prints one line
OnInterrupt(out, partial) == Append(out, CancelLine)

\* lines 396-403: header, number prompt, warning, PhoneOSINT(phone_number)
MainConstruct(p) ==
    /\ pc = "new"
    /\ pc' = "ready"
    /\ phone_number' = p
    /\ parsed_number' = ParsedAfterInit(p)
    /\ console' = ConsoleAfterInit(p)
    /\ main_console' =
          <<Message("CentTR")>>
          \o (IF p = <<>> \/ Head(p) # "+"
              THEN <<Message("Warning: Phone number should start with '+'")>>
              ELSE <<>>)
    /\ UNCHANGED <<basic_info, social_media_results, breach_results,
                   google_results, reverse_lookup_results, hibp_api_key,
                   num_results, results, invoked, http_log, search_log,
                   last_call, runs, opened, saved>>

\* lines 405-411: the key prompt, then run_all_checks is entered
MainRunAllChecks(typed) ==
    /\ pc = "ready"
    /\ EnterRunAllChecks(IF typed = "" THEN None ELSE typed, GoogleResultsArg)

\* lines 413-414
MainDisplay ==
    /\ pc = "returned"
    /\ LET d == display_results(results)
       IN  /\ main_console' =
                 Append(main_console, Message("OSINT Results")) \o d.printed
           /\ pc' = IF d.exc = None THEN "shown" ELSE "raised"
    /\ UNCHANGED <<phone_number, parsed_number, console, basic_info,
                   social_media_results, breach_results, google_results,
                   reverse_lookup_results, hibp_api_key, num_results,
                   results, invoked, http_log, search_log, last_call, runs,
                   opened, saved>>

\* line 416
MainOpenUrls(choice) ==
    /\ pc = "shown"
    /\ opened' = opened \cup open_urls_interactively(results, choice)
    /\ pc' = "offered"
    /\ UNCHANGED <<phone_number, parsed_number, console, basic_info,
                   social_media_results, breach_results, google_results,
                   reverse_lookup_results, hibp_api_key, num_results,
                   results, invoked, http_log, search_log, last_call, runs,
                   main_console, saved>>

\* lines 418-430: the answer, whether the file can be written, and
\* whether the user asks to open it
MainSave(answer, writable, open_file) ==
    /\ pc = "offered"
    /\ IF answer # "y"
       THEN UNCHANGED <<saved, main_console, opened>>
       ELSE IF ~writable
            THEN /\ main_console' = Append(main_console, Message("Failed to save file"))
                 /\ UNCHANGED <<saved, opened>>
            ELSE /\ saved' = [t |-> "file", v |-> results]
                 /\ main_console' = Append(main_console, Message("Results saved"))
                 /\ opened' = IF open_file = "y" THEN opened \cup {"file"} ELSE opened
    /\ pc' = "finally"
    /\ UNCHANGED <<phone_number, parsed_number, console, basic_info,
                   social_media_results, breach_results, google_results,
                   reverse_lookup_results, hibp_api_key, num_results,
                   results, invoked, http_log, search_log, last_call, runs>>

MainKeeps ==
    UNCHANGED <<phone_number, parsed_number, console, basic_info,
                social_media_results, breach_results, google_results,
                reverse_lookup_results, hibp_api_key, num_results,
                results, invoked, http_log, search_log, last_call, runs,
                opened, saved>>

InputPoints == {"new", "ready", "shown", "offered"}

TryBody == {"new", "ready", "basic", "social", "breach", "google", "reverse",
            "metadata", "returned", "shown", "offered"}

\* console.input raises (end of input) at one of the prompts
MainInputFails ==
    /\ pc \in InputPoints
    /\ pc' = "raised"
    /\ main_console' = main_console
    /\ MainKeeps

\* the user interrupts somewhere in the try body
MainInterrupt ==
    /\ pc \in TryBody
    /\ pc' = "interrupted"
    /\ main_console' = main_console
    /\ MainKeeps

\* lines 432-433
MainOnInterrupt ==
    /\ pc = "interrupted"
    /\ main_console' = OnInterrupt(main_console, invoked)
    /\ pc' = "finally"
    /\ MainKeeps

\* lines 434-435
MainOnException ==
    /\ pc = "raised"
    /\ main_console' = Append(main_console, ErrorLine)
    /\ pc' = "finally"
    /\ MainKeeps

\* a second interrupt while an except clause is printing
MainHandlerInterrupted ==
    /\ pc \in {"interrupted", "raised"}
    /\ pc' = "finally"
    /\ main_console' = main_console
    /\ MainKeeps

\* lines 436-437
MainFinally ==
    /\ pc = "finally"
    /\ main_console' = Append(main_console, ClosingLine)
    /\ pc' = "done"
    /\ MainKeeps

NextMain ==
    \/ \E p \in Inputs : MainConstruct(p)
    \/ \E typed \in {"", "key"} : MainRunAllChecks(typed)
    \/ RunBasicInfo
    \/ RunSocialMedia
    \/ \E resp \in MainResponses : RunBreachCheck(resp)
    \/ \E run \in ProviderRuns(num_results) : RunGoogleSearch(run)
    \/ RunReverseLookup
    \/ \E resolves \in BOOLEAN : RunMetadata(resolves)
    \/ MainDisplay
    \/ \E choice \in LinkChoices : MainOpenUrls(choice)
    \/ \E answer \in {"y", "n"}, writable \in BOOLEAN, open_file \in {"y", "n"} :
          MainSave(answer, writable, open_file)
    \/ MainInputFails
    \/ MainInterrupt
    \/ MainOnInterrupt
    \/ MainOnException
    \/ MainHandlerInterrupted
    \/ MainFinally

MainPositions == TryBody \cup {"raised", "interrupted", "finally", "done"}

\* a step of main(): every action of NextMain moves pc, and one of them
\* is enabled at every position but "done"
MainStep == pc # "done" /\ pc' \in MainPositions /\ pc' # pc

\* main() is one sequential program: it keeps taking its next step
SpecMain == Init /\ [][NextMain]_vars /\ WF_pc(MainStep)

----------------------------------------------------------------------------
(* Properties.                                                             *)

IsBreachCall == last_call.op = "check_breaches"
IsSearchCall == last_call.op = "google_search"

Flag(r, f) == f \in DOMAIN r /\ r[f]

HasPassword(r) ==
    /\ "DataClasses" \in DOMAIN r
    /\ \E i \in 1..Len(r["DataClasses"]) : r["DataClasses"][i] = "Password"

PrecedenceTable(r) ==
    IF Flag(r, "IsFabricated") \/ Flag(r, "IsRetired") THEN "Low"
    ELSE IF HasPassword(r) \/ Flag(r, "IsSensitive") THEN "Critical"
    ELSE IF Flag(r, "IsVerified") THEN "High"
    ELSE "Medium"

\* C1: after an HTTP 200 whose body is a list of records, check_breaches
\* returns the same records, each carrying the Severity the precedence
\* table gives for its five inputs (Low if fabricated or retired, else
\* Critical if it has "Password" or is sensitive, else High if verified,
\* else Medium; a missing field counts as false or empty) and nothing else
\* of the record changed, whatever other fields the record has.
C1_SeverityTable ==
    (IsBreachCall /\ pc = "called" /\ last_call.ret.t = "list") =>
        LET in  == last_call.input.resp.json.v
            out == last_call.ret.v
        IN  /\ last_call.input.resp.status = 200
            /\ breach_results = last_call.ret
            /\ Len(out) = Len(in)
            /\ \A i \in 1..Len(out) :
                  /\ out[i].t = "dict"
                  /\ DOMAIN out[i].v = DOMAIN in[i].v \cup {"Severity"}
                  /\ out[i].v["Severity"] = PrecedenceTable(in[i].v)
                  /\ \A k \in DOMAIN in[i].v : out[i].v[k] = in[i].v[k]

\* a verified and retired record that also has a password came back Low
C1_Witness ==
    /\ IsBreachCall /\ pc = "called" /\ last_call.ret.t = "list"
    /\ Len(last_call.ret.v) = 1
    /\ LET r == last_call.ret.v[1].v
       IN  /\ DOMAIN r = {"IsVerified", "IsRetired", "DataClasses", "Severity"}
           /\ r["IsVerified"] /\ r["IsRetired"]
           /\ r["DataClasses"] = <<"Password">>
           /\ r["Severity"] = "Low"

InputFailsValidation ==
    ParseRaises(phone_number) \/ ~is_valid_number(Parse(phone_number))

\* C2: for an input that fails numbering-plan validation, the returned
\* envelope reports the number as not valid and its Breach Check, Google
\* Results and Reverse Lookup sections are the invalid-input placeholders:
\* no breach request, no search query, no fabricated lookup strings.
C2_InvalidShortCircuits ==
    (pc = "returned" /\ InputFailsValidation) =>
        /\ Get(results["Basic Info"], "ValidNumber", "No") = "No"
        /\ http_log = <<>>
        /\ search_log = <<>>
        /\ results["Google Results"] = CannotSearch
        /\ results["Reverse Lookup"] = InvalidLookup

\* C3: when the parser raises, the error is reported at once and no
\* request to the breach API and no search-provider call is ever made for
\* that input, with or without an API key.
C3_ParseErrorNoCalls ==
    (pc # "new" /\ ParseRaises(phone_number)) =>
        /\ console = <<ParseErrorLine>>
        /\ http_log = <<>>
        /\ search_log = <<>>

\* C4: run_all_checks never raises, and the envelope it returns has
\* exactly the six section keys.
C4_AlwaysSixSections ==
    /\ pc # "raised"
    /\ pc = "returned" =>
          DOMAIN results = {Sections[i] : i \in 1..Len(Sections)}

\* C5: a check_breaches call without an API key (None or the empty
\* string), in whatever state the object is, issues no request and
\* returns the Skipped sentinel.
C5_NoKeyNoRequest ==
    [][(pc = "breach" /\ hibp_api_key \in {None, ""}) =>
          /\ http_log' = http_log
          /\ pc' = "google"
          /\ results'["Breach Check"] =
                [t |-> "dict",
                 v |-> [Status |-> "Skipped - No HIBP API key provided"]]
          /\ last_call'.ret = results'["Breach Check"]]_vars

\* a keyless call on an object whose earlier run did query the API
C5_Witness ==
    /\ IsBreachCall /\ last_call.input.key = "" /\ runs = 2
    /\ Len(http_log) = 1
    /\ breach_results # Skipped
    /\ results["Breach Check"] = Skipped

\* C6: with a key, HTTP 404 gives exactly the not-found sentinel; any
\* status other than 200 and 404 gives an error carrying the status code
\* and an excerpt that is the whole body when it has at most 200
\* characters and otherwise its first 200 characters followed by "...".
C6_StatusMapping ==
    (IsBreachCall /\ last_call.input.key = "key"
       /\ last_call.input.resp.kind = "http") =>
        LET resp == last_call.input.resp
            ret  == last_call.ret
        IN  /\ resp.status = 404 =>
                  ret = [t |-> "dict",
                         v |-> [Status |-> "Phone number not found in any breaches"]]
            /\ resp.status \notin {200, 404} =>
                  /\ ret.t = "dict"
                  /\ DOMAIN ret.v = {"Error", "Details"}
                  /\ ret.v["Error"] = "HTTP " \o ToString(resp.status)
                  /\ Len(resp.text) <= 200 => ret.v["Details"] = resp.text
                  /\ Len(resp.text) > 200 =>
                        /\ Len(ret.v["Details"]) = 203
                        /\ SubSeq(ret.v["Details"], 1, 200) = SubSeq(resp.text, 1, 200)
                        /\ SubSeq(ret.v["Details"], 201, 203) = <<".", ".", ".">>

\* an error response whose body was cut
C6_Witness ==
    /\ IsBreachCall /\ last_call.input.key = "key"
    /\ last_call.input.resp.kind = "http"
    /\ last_call.input.resp.status = 500
    /\ Len(last_call.input.resp.text) > 200
    /\ Len(last_call.ret.v["Details"]) = 203

CatalogNames ==
    <<"Facebook", "WhatsApp", "x", "Instagram", "Truecaller", "Telegram",
      "Viber", "LinkedIn", "TikTok", "Snapchat", "WeChat">>

\* C7: for every input the parser accepts, the Social Media section lists
\* exactly the 11 catalog platforms in catalog order, and every URL embeds
\* either the digits of the E164 form and nothing else, or the
\* percent-encoded E164 form.
C7_LinksEmbedDigits ==
    (parsed_number # NoNumber /\ "Social Media" \in DOMAIN results) =>
        LET links  == results["Social Media"]
            digits == OnlyDigits(FormatE164(parsed_number))
        IN  /\ Keys(links) = CatalogNames
            /\ links = social_media_results
            /\ \A i \in 1..Len(links) :
                  links[i][2].number \in {digits, <<"%", "2", "B">> \o digits}

\* the URLs google_search returned, the error marker set aside
UrlsOf(ret) == SelectSeq(ret, LAMBDA x : x # "Error: Google search failed")

C9_FailureIsOneMarker ==
    (IsSearchCall /\ parsed_number # NoNumber /\ last_call.input.run.raised) =>
        /\ last_call.ret.urls = <<"Error: Google search failed">>
        /\ google_results = last_call.ret.urls
        /\ results["Google Results"] = last_call.ret.urls
        /\ pc = "reverse"

\* the provider failed after it had returned a URL
C9_Witness ==
    /\ IsSearchCall /\ parsed_number # NoNumber
    /\ last_call.input.run.raised
    /\ last_call.input.run.yielded >= 1
    /\ google_results = <<SearchFailed>>

\* C10: a run invokes the six sections once each, in order; no failure of
\* a section keeps the later sections from being invoked, and no section
\* runs twice (at most one breach GET and one search per run).
C10_AllSectionsInOrder ==
    /\ IsPrefix(invoked, Sections)
    /\ Len(http_log) <= runs
    /\ Len(search_log) <= runs
    /\ pc \in {"returned", "raised"} => invoked = Sections

\* some part of the envelope has left main(): a panel on the console, a
\* link handed to the browser, or the file
Exposed ==
    \/ \E i \in 1..Len(main_console) : main_console[i].kind = "section"
    \/ opened # {}
    \/ saved # [t |-> "none"]

EnvelopeReturned ==
    /\ invoked = Sections
    /\ DOMAIN results = {Sections[i] : i \in 1..Len(Sections)}

ClosingPrinted ==
    \E i \in 1..Len(main_console) :
        main_console[i] = [kind |-> "message", what |-> "Thank you for using CentTR Tool!"]

\* C11: main() shows, offers or saves the envelope only once
\* run_all_checks has returned all six sections, so after an interrupt or
\* an exception before that return nothing of it is shown or saved; and
\* every execution, normal, interrupted or failed, ends by printing the
\* closing message.
C11_NoPartialEnvelope ==
    /\ [](Exposed => EnvelopeReturned)
    /\ [](saved # [t |-> "none"] => saved.v = results)
    /\ [](pc = "done" => ClosingPrinted)
    /\ <>ClosingPrinted

\* a run interrupted in the middle of run_all_checks has ended, with the
\* closing message and nothing of the envelope out
C11_Witness ==
    /\ pc = "done"
    /\ Len(invoked) = 3
    /\ http_log # <<>>
    /\ ~Exposed
    /\ ClosingPrinted
    /\ main_console[Len(main_console) - 1] = CancelLine

====
